---- MODULE Spec2Model ----
(***************************************************************************)
(* Verification model of the goggles mini search engine.                   *)
(*                                                                         *)
(*   Spec     python/mass_crawler.py: MassCrawler.run, its worker threads, *)
(*            the shared queue / visited set / batch buffer and the store  *)
(*   SpecSeq  python/script.py: the sequential crawl_category loop with    *)
(*            fetch_article and retry_request                              *)
(*   SpecQF   the two is_quality_article predicates, applied to inputs     *)
(*            drawn from bounded sets                                      *)
(*   SpecIdx  python/advanced_search.py: AdvancedSearchEngine over a       *)
(*            growing store, with build_search_index, load_model and the   *)
(*            two ranked queries called in any order                       *)
(*   SpecQuery  advanced_search and get_related_articles on a built model  *)
(*            whose document vectors are drawn from a bounded set          *)
(*   SpecSug  search_suggestions over title sets drawn from a bounded pool *)
(*   SpecMembers  MassCrawler.fetch_category_members, one page request at  *)
(*            a time, over pages of any size                               *)
(*   SpecLive, SpecSeqLive, SpecRebuild  the crawlers under fair           *)
(*            scheduling; a build interleaved with queries                 *)
(***************************************************************************)
EXTENDS Integers, Sequences, FiniteSets, TLC

VARIABLES
    visited,        \* set of titles                  (self.visited / visited)
    queue,          \* sequence of titles             (self.queue / queue)
    store,          \* rows of wiki_articles, title UNIQUE
    article_batch,  \* self.article_batch
    lock,           \* holder of self.lock, or NoWorker
    pc,             \* position of each worker thread in worker_thread
    current,        \* worker_thread's local `current`
    article_data,   \* worker_thread's local `article_data`
    mpc,            \* position of the main thread in MassCrawler.run / main
    fetchCount,     \* history: retrievals per title that got past the visited check
    appended,       \* history: every record appended to article_batch
    lost,           \* history: records handed to a batch insert that failed
    sigBatch,       \* history: article_batch when KeyboardInterrupt arrived
    lastFlush,      \* history: the last batch_insert_articles call: did its first
                    \* executemany succeed, and how many executemany calls it made
    unslept,        \* history: the worker called fetch_article and has not reached
                    \* time.sleep(RATE_LIMIT) since
    spc,            \* script.py: position in crawl_category / fetch_article
    scur,           \* script.py: crawl_category's local `current`
    attempt,        \* script.py: retry_request's loop variable
    delays,         \* script.py: the time.sleep arguments of the running retry_request
    sresp,          \* script.py: what the running retry_request has returned so far
    sattempted,     \* history: titles whose fetch_article got past the visited check
    qfIn,           \* quality filter: the input under test
    qfOut,          \* quality filter: the value returned for qfIn
    docVec,         \* engine: tf-idf direction of the i-th row the index SELECT returns
    nrows,          \* engine: number of rows the index SELECT returns now
    vectorizer,     \* self.vectorizer: "None", "unfitted" or "fitted"
    tfidf_matrix,   \* self.tfidf_matrix: None or the rows of the matrix
    article_ids,    \* self.article_ids
    model_file,     \* search_model.pkl: missing, corrupt or a snapshot
    argsortRank,    \* engine: the order numpy's argsort leaves equal keys in
    call,           \* engine: the last call made on the engine
    results,        \* engine: the list that call returned
    status,         \* engine: how that call ended
    succeeded,      \* history: some build or load has returned True
    bpc,            \* engine: position of a running build_search_index, or "idle"
    titles,         \* suggest: the titles of wiki_articles
    storeQueried,   \* suggest: did the last call execute a query on the store
    storeError,     \* suggest: did that query raise
    cm_pc,          \* fetch_category_members: position in the call, or how it ended
    cm_members,     \* fetch_category_members: the local list members
    continue_param, \* fetch_category_members: the local continue_param (0 is None)
    cm_requests,    \* fetch_category_members: page requests made so far
    cm_return       \* fetch_category_members: the value returned

shared   == <<visited, queue, store>>
mcVars   == <<article_batch, lock, pc, current, article_data, mpc,
              fetchCount, appended, lost, sigBatch, lastFlush, unslept>>
seqVars  == <<spc, scur, attempt, delays, sresp, sattempted>>
qfVars   == <<qfIn, qfOut>>
cmVars   == <<cm_pc, cm_members, continue_param, cm_requests, cm_return>>
idxVars  == <<docVec, nrows, vectorizer, tfidf_matrix, article_ids, model_file,
              argsortRank, succeeded, bpc>>
callVars == <<call, results, status>>
sugVars  == <<titles, storeQueried, storeError>>
qeVars   == <<idxVars, callVars, sugVars>>
vars     == <<shared, mcVars, seqVars, qfVars, cmVars, qeVars>>

----------------------------------------------------------------------------
(* Configuration of mass_crawler.py, scaled down for model checking.       *)

\* mass_crawler.py:33  MAX_ARTICLES = 10000
MAX_ARTICLES == 3
\* mass_crawler.py:35  BATCH_SIZE = 100
BATCH_SIZE == 2
\* mass_crawler.py:328  len(self.queue) < 50000
MaxQueueSize == 3
\* mass_crawler.py:327  article_data['links'][:10]
LinkLimit == 2
\* mass_crawler.py:357  sub_members[:50]
SubLimit == 2

\* mass_crawler.py:34  MAX_WORKERS = 5 threads run worker_thread; two are modelled
Workers  == {1, 2}
MAX_WORKERS == Cardinality(Workers)
NoWorker == 0

----------------------------------------------------------------------------
(* The source API the crawler talks to: a small fixed link graph.          *)

Titles == {"A", "B", "C", "D"}

\* the title the summary endpoint answers with ("C" redirects to "A")
Canon(t) == IF t = "C" THEN "A" ELSE t

\* parse.links of the page served for t, main namespace only
Links(t) ==
    CASE Canon(t) = "A" -> <<"B", "C", "D">>
      [] Canon(t) = "B" -> <<"C", "A">>
      [] OTHER          -> <<>>

\* mass_crawler.py:44 SEED_CATEGORIES
SEED_CATEGORIES == <<"Category:One", "Category:Two">>
Categories == {"Category:One", "Category:Two", "Category:Sub"}

\* categorymembers of each category, as (title, ns) pairs; Category:One and
\* Category:Sub contain each other
CategoryMembers(c) ==
    CASE c = "Category:One" -> << <<"A", 0>>, <<"Category:Sub", 14>>, <<"Talk:A", 1>> >>
      [] c = "Category:Two" -> << <<"B", 0>> >>
      [] c = "Category:Sub" -> << <<"B", 0>>, <<"A", 0>>, <<"C", 0>>,
                                  <<"Category:One", 14>> >>
      [] OTHER              -> <<>>

\* rows the table may hold before the crawler starts
Preloaded == {"D"}

\* fetch_article's None; kind tells why (short-circuit, failed request, filtered
\* out) and requests counts the requests.get calls made on the endpoint that failed
NoData == [kind |-> "none", title |-> "", content |-> <<"", 0>>, links |-> <<>>,
           requests |-> 0]

\* the dict fetch_article returns for the n-th retrieval of t
Article(t, n) ==
    [kind |-> "ok", title |-> Canon(t), content |-> <<t, n>>, links |-> Links(t),
     requests |-> 1]

Row(a) == [title |-> a.title, content |-> a.content]

Range(s) == {s[i] : i \in DOMAIN s}
Prefix(s, n) == SubSeq(s, 1, IF Len(s) < n THEN Len(s) ELSE n)

----------------------------------------------------------------------------
(* MassCrawler: helpers.                                                   *)

\* fetch_category_members: the members of `category`, or [] when the request
\* raises; `up` is the set of categories the API currently answers for
fetch_category_members(category, up) ==
    IF category \in up THEN CategoryMembers(category) ELSE <<>>

\* populate_initial_queue, inner loop over sub_members[:50]
RECURSIVE AppendSubMembers(_, _, _)
AppendSubMembers(q, sub_members, vis) ==
    IF sub_members = <<>> THEN q
    ELSE LET sub_title == Head(sub_members)[1]
             sub_ns    == Head(sub_members)[2]
         IN  AppendSubMembers(
                 IF sub_ns = 0 /\ sub_title \notin vis THEN Append(q, sub_title) ELSE q,
                 Tail(sub_members), vis)

\* populate_initial_queue, loop over the members of one seed category
RECURSIVE AppendMembers(_, _, _, _)
AppendMembers(q, members, vis, up) ==
    IF members = <<>> THEN q
    ELSE LET title == Head(members)[1]
             ns    == Head(members)[2]
             q1    == IF ns = 0 /\ title \notin vis
                          THEN Append(q, title)
                      ELSE IF ns = 14
                          THEN AppendSubMembers(
                                   q, Prefix(fetch_category_members(title, up), SubLimit), vis)
                      ELSE q
         IN  AppendMembers(q1, Tail(members), vis, up)

\* populate_initial_queue, loop over SEED_CATEGORIES
RECURSIVE PopulateQueue(_, _, _, _)
PopulateQueue(q, cats, vis, up) ==
    IF cats = <<>> THEN q
    ELSE PopulateQueue(
             AppendMembers(q, fetch_category_members(Head(cats), up), vis, up),
             Tail(cats), vis, up)

\* worker_thread: for link in article_data['links'][:10]: append if new and room
RECURSIVE EnqueueLinks(_, _, _)
EnqueueLinks(q, links, vis) ==
    IF links = <<>> THEN q
    ELSE EnqueueLinks(
             IF Head(links) \notin vis /\ Len(q) < MaxQueueSize
                 THEN Append(q, Head(links)) ELSE q,
             Tail(links), vis)

\* faulty variant: REPLACE INTO instead of INSERT IGNORE (the newer row wins)
InsertIgnoreRow_Replace(st, r) ==
    {s \in st : s.title # r.title} \cup {r}

\* INSERT IGNORE of one row into a table whose title column is UNIQUE
InsertIgnoreRow(st, r) ==
    IF \E s \in st : s.title = r.title THEN st ELSE st \cup {r}

\* executemany(INSERT IGNORE ..., values) followed by commit
RECURSIVE InsertIgnore(_, _)
InsertIgnore(st, articles) ==
    IF articles = <<>> THEN st
    ELSE InsertIgnore(InsertIgnoreRow(st, Row(Head(articles))), Tail(articles))

\* batch_insert_articles on a non-empty list: one executemany + commit; when it
\* raises, the error is logged and the transaction rolled back
batch_insert_articles(articles, ok) ==
    /\ store' = IF ok THEN InsertIgnore(store, articles) ELSE store
    /\ lost' = IF ok THEN lost ELSE lost \cup Range(articles)
    /\ lastFlush' = [firstOk |-> ok, attempts |-> 1]

\* every future is done: the worker returned from worker_thread ("stopped")
\* or an exception ended it ("died")
AllStopped == \A w \in Workers : pc[w] \in {"stopped", "died"}

----------------------------------------------------------------------------
(* MassCrawler: initial state (after __init__ and load_existing_articles). *)

SeqOff ==
    /\ spc = "off" /\ scur = "" /\ attempt = 0 /\ delays = <<>>
    /\ sresp = "none" /\ sattempted = {}

QFOff == qfIn = <<>> /\ qfOut = <<>>

\* continue_param = None
NoToken == 0

CMOff ==
    /\ cm_pc = "off" /\ cm_members = <<>> /\ continue_param = NoToken
    /\ cm_requests = 0 /\ cm_return = <<>>

\* the engine before any call: the value of `call`
NoCall == [op |-> "none", query |-> "", article_id |-> 0, limit |-> 0,
           partial_query |-> <<>>]

\* self.tfidf_matrix = None
NoMatrix == [kind |-> "None"]

QEOff ==
    /\ docVec = <<>> /\ nrows = 0
    /\ vectorizer = "None" /\ tfidf_matrix = NoMatrix /\ article_ids = <<>>
    /\ model_file = [kind |-> "missing"]
    /\ argsortRank = <<>>
    /\ call = NoCall /\ results = <<>> /\ status = "none"
    /\ succeeded = FALSE /\ bpc = "idle"
    /\ titles = {} /\ storeQueried = FALSE /\ storeError = FALSE

Init ==
    /\ \E pre \in SUBSET Preloaded :
          /\ store = {[title |-> t, content |-> <<t, 0>>] : t \in pre}
          /\ visited = pre
    /\ queue = <<>>
    /\ article_batch = <<>>
    /\ lock = NoWorker
    /\ pc = [w \in Workers |-> "idle"]
    /\ current = [w \in Workers |-> ""]
    /\ article_data = [w \in Workers |-> NoData]
    /\ mpc = "populate"
    /\ fetchCount = [t \in Titles |-> 0]
    /\ appended = {}
    /\ lost = {}
    /\ sigBatch = <<>>
    /\ lastFlush = [firstOk |-> TRUE, attempts |-> 0]
    /\ unslept = [w \in Workers |-> FALSE]
    /\ SeqOff
    /\ QFOff
    /\ CMOff
    /\ QEOff

----------------------------------------------------------------------------
(* MassCrawler.worker_thread                                               *)

\* faulty variant: the loop condition lets a worker in while the count equals
\* the target (<= instead of <)
LoopCheck_Inclusive(w) ==
    /\ pc[w] = "loop"
    /\ pc' = [pc EXCEPT ![w] = IF Cardinality(visited) <= MAX_ARTICLES
                                   THEN "dequeue" ELSE "stopped"]
    /\ UNCHANGED <<shared, article_batch, lock, current, article_data, mpc,
                   fetchCount, appended, lost, sigBatch, lastFlush, unslept,
                   seqVars, qfVars, cmVars, qeVars>>

\* while len(self.visited) < MAX_ARTICLES   (read without the lock)
LoopCheck(w) ==
    /\ pc[w] = "loop"
    /\ pc' = [pc EXCEPT ![w] = IF Cardinality(visited) < MAX_ARTICLES
                                   THEN "dequeue" ELSE "stopped"]
    /\ UNCHANGED <<shared, article_batch, lock, current, article_data, mpc,
                   fetchCount, appended, lost, sigBatch, lastFlush, unslept,
                   seqVars, qfVars, cmVars, qeVars>>

\* faulty variant: a worker that finds the queue empty goes back to the loop
\* condition and waits for work
Dequeue_WaitsOnEmpty(w) ==
    /\ pc[w] = "dequeue"
    /\ lock = NoWorker
    /\ IF queue = <<>>
          THEN /\ pc' = [pc EXCEPT ![w] = "loop"]
               /\ UNCHANGED <<queue, current>>
          ELSE /\ current' = [current EXCEPT ![w] = Head(queue)]
               /\ queue' = Tail(queue)
               /\ pc' = [pc EXCEPT ![w] = "check"]
    /\ UNCHANGED <<visited, store, article_batch, lock, article_data, mpc,
                   fetchCount, appended, lost, sigBatch, lastFlush, unslept,
                   seqVars, qfVars, cmVars, qeVars>>

\* with self.lock: if not self.queue: break; current = self.queue.popleft()
Dequeue(w) ==
    /\ pc[w] = "dequeue"
    /\ lock = NoWorker
    /\ IF queue = <<>>
          THEN /\ pc' = [pc EXCEPT ![w] = "stopped"]
               /\ UNCHANGED <<queue, current>>
          ELSE /\ current' = [current EXCEPT ![w] = Head(queue)]
               /\ queue' = Tail(queue)
               /\ pc' = [pc EXCEPT ![w] = "check"]
    /\ UNCHANGED <<visited, store, article_batch, lock, article_data, mpc,
                   fetchCount, appended, lost, sigBatch, lastFlush, unslept,
                   seqVars, qfVars, cmVars, qeVars>>

\* if current in self.visited: continue   (read without the lock)
CheckVisited(w) ==
    /\ pc[w] = "check"
    /\ pc' = [pc EXCEPT ![w] = IF current[w] \in visited THEN "loop" ELSE "fetch"]
    /\ current' = [current EXCEPT ![w] = IF current[w] \in visited THEN "" ELSE @]
    /\ UNCHANGED <<shared, article_batch, lock, article_data, mpc,
                   fetchCount, appended, lost, sigBatch, lastFlush, unslept,
                   seqVars, qfVars, cmVars, qeVars>>

\* article_data = self.fetch_article(current): None when the title is visited,
\* when a request fails or the page is filtered out, else the article dict
FetchArticle(w) ==
    /\ pc[w] = "fetch"
    /\ IF current[w] \in visited
          THEN /\ article_data' = [article_data EXCEPT ![w] = [NoData EXCEPT !.kind = "skip"]]
               /\ UNCHANGED fetchCount
          ELSE /\ fetchCount' = [fetchCount EXCEPT ![current[w]] = @ + 1]
               /\ \E outcome \in {"ok", "fail", "reject"} :
                     article_data' = [article_data EXCEPT ![w] =
                         IF outcome = "ok"
                             THEN Article(current[w], fetchCount'[current[w]])
                             ELSE [NoData EXCEPT !.kind = outcome, !.requests = 1]]
    /\ pc' = [pc EXCEPT ![w] = "record"]
    /\ unslept' = [unslept EXCEPT ![w] = TRUE]
    /\ UNCHANGED <<shared, article_batch, lock, current, mpc,
                   appended, lost, sigBatch, lastFlush,
                   seqVars, qfVars, cmVars, qeVars>>

\* faulty variant: time.sleep(RATE_LIMIT) is reached only after a fetch that
\* returned an article
Record_SleepOnSuccessOnly(w) ==
    /\ pc[w] = "record"
    /\ lock = NoWorker
    /\ visited' = visited \cup {current[w]}
    /\ IF article_data[w].kind = "ok"
          THEN /\ article_batch' = Append(article_batch, article_data[w])
               /\ appended' = appended \cup {article_data[w]}
               /\ queue' = EnqueueLinks(queue, Prefix(article_data[w].links, LinkLimit),
                                        visited')
          ELSE UNCHANGED <<article_batch, appended, queue>>
    /\ IF article_data[w].kind = "ok" /\ Len(article_batch') >= BATCH_SIZE
          THEN lock' = w /\ pc' = [pc EXCEPT ![w] = "flush"]
          ELSE /\ lock' = NoWorker
               /\ pc' = [pc EXCEPT ![w] = IF article_data[w].kind = "ok"
                                              THEN "sleep" ELSE "loop"]
    /\ current' = [current EXCEPT ![w] = ""]
    /\ article_data' = [article_data EXCEPT ![w] = NoData]
    /\ UNCHANGED <<store, mpc, fetchCount, lost, sigBatch, lastFlush, unslept,
                   seqVars, qfVars, cmVars, qeVars>>

\* with self.lock: visited.add(current); on success append to the batch and
\* enqueue the first links; the lock stays held when the batch is due.
\* `current` and `article_data` are not read again before they are reassigned.
Record(w) ==
    /\ pc[w] = "record"
    /\ lock = NoWorker
    /\ visited' = visited \cup {current[w]}
    /\ IF article_data[w].kind = "ok"
          THEN /\ article_batch' = Append(article_batch, article_data[w])
               /\ appended' = appended \cup {article_data[w]}
               /\ queue' = EnqueueLinks(queue, Prefix(article_data[w].links, LinkLimit),
                                        visited')
          ELSE UNCHANGED <<article_batch, appended, queue>>
    /\ IF article_data[w].kind = "ok" /\ Len(article_batch') >= BATCH_SIZE
          THEN lock' = w /\ pc' = [pc EXCEPT ![w] = "flush"]
          ELSE lock' = NoWorker /\ pc' = [pc EXCEPT ![w] = "sleep"]
    /\ current' = [current EXCEPT ![w] = ""]
    /\ article_data' = [article_data EXCEPT ![w] = NoData]
    /\ UNCHANGED <<store, mpc, fetchCount, lost, sigBatch, lastFlush, unslept,
                   seqVars, qfVars, cmVars, qeVars>>

\* faulty variant: a batch insert that fails takes the titles of the batch
\* out of visited again, so that they are retried
Flush_ForgetsOnFailure(w) ==
    /\ pc[w] = "flush"
    /\ lock = w
    /\ \E ok \in BOOLEAN :
          /\ batch_insert_articles(article_batch, ok)
          /\ visited' = IF ok THEN visited
                        ELSE visited \ {article_batch[i].title : i \in DOMAIN article_batch}
    /\ article_batch' = <<>>
    /\ lock' = NoWorker
    /\ pc' = [pc EXCEPT ![w] = "sleep"]
    /\ UNCHANGED <<queue, current, article_data, mpc,
                   fetchCount, appended, sigBatch, unslept,
                   seqVars, qfVars, cmVars, qeVars>>

\* still inside with self.lock: self.batch_insert_articles(self.article_batch);
\* self.article_batch.clear().  rollback_ok: the self.db.rollback() in the
\* except clause of batch_insert_articles returned; when it raises instead
\* (it talks to the server that has just failed) the exception leaves
\* batch_insert_articles, the with block and worker_thread: the batch is not
\* cleared, the lock is released and the thread ends without the sleep.
Flush(w) ==
    /\ pc[w] = "flush"
    /\ lock = w
    /\ \E ok, rollback_ok \in BOOLEAN :
          /\ batch_insert_articles(article_batch, ok)
          /\ IF ok \/ rollback_ok
             THEN /\ article_batch' = <<>>
                  /\ pc' = [pc EXCEPT ![w] = "sleep"]
             ELSE /\ UNCHANGED article_batch
                  /\ pc' = [pc EXCEPT ![w] = "died"]
    /\ lock' = NoWorker
    /\ UNCHANGED <<visited, queue, current, article_data, mpc,
                   fetchCount, appended, sigBatch, unslept,
                   seqVars, qfVars, cmVars, qeVars>>

\* time.sleep(RATE_LIMIT), then back to the loop condition
RateLimitSleep(w) ==
    /\ pc[w] = "sleep"
    /\ pc' = [pc EXCEPT ![w] = "loop"]
    /\ unslept' = [unslept EXCEPT ![w] = FALSE]
    /\ UNCHANGED <<shared, article_batch, lock, current, article_data, mpc,
                   fetchCount, appended, lost, sigBatch, lastFlush,
                   seqVars, qfVars, cmVars, qeVars>>

----------------------------------------------------------------------------
(* MassCrawler.run and main                                                *)

\* populate_initial_queue; return when the queue is empty, else submit the workers
Populate ==
    /\ mpc = "populate"
    /\ \E up \in SUBSET Categories :
          queue' = PopulateQueue(queue, SEED_CATEGORIES, visited, up)
    /\ IF queue' = <<>>
          THEN mpc' = "aborted" /\ UNCHANGED pc
          ELSE mpc' = "monitor" /\ pc' = [w \in Workers |-> "loop"]
    /\ UNCHANGED <<visited, store, article_batch, lock, current, article_data,
                   fetchCount, appended, lost, sigBatch, lastFlush, unslept,
                   seqVars, qfVars, cmVars, qeVars>>

\* the monitor loop ends: every future is done, or the count read under the
\* lock has reached MAX_ARTICLES (break)
MonitorExit ==
    /\ mpc = "monitor"
    /\ \/ AllStopped
       \/ lock = NoWorker /\ Cardinality(visited) >= MAX_ARTICLES
    /\ mpc' = "joining"
    /\ UNCHANGED <<shared, article_batch, lock, pc, current, article_data,
                   fetchCount, appended, lost, sigBatch, lastFlush, unslept,
                   seqVars, qfVars, cmVars, qeVars>>

\* ThreadPoolExecutor.__exit__: shutdown(wait=True) returns once every worker ended
Join ==
    /\ mpc = "joining"
    /\ AllStopped
    /\ mpc' = "final"
    /\ UNCHANGED <<shared, article_batch, lock, pc, current, article_data,
                   fetchCount, appended, lost, sigBatch, lastFlush, unslept,
                   seqVars, qfVars, cmVars, qeVars>>

\* faulty variant: run() returns without the final batch insert
FinalFlush_Skipped ==
    /\ mpc = "final"
    /\ mpc' = "returned"
    /\ UNCHANGED <<shared, article_batch, lock, pc, current, article_data,
                   fetchCount, appended, lost, sigBatch, lastFlush, unslept,
                   seqVars, qfVars, cmVars, qeVars>>

\* if self.article_batch: self.batch_insert_articles(self.article_batch).
\* When the insert fails and the rollback raises too, the exception leaves
\* run(); main() logs "Fatal error" ("failed").
FinalFlush ==
    /\ mpc = "final"
    /\ IF article_batch # <<>>
          THEN \E ok, rollback_ok \in BOOLEAN :
                  /\ batch_insert_articles(article_batch, ok)
                  /\ mpc' = IF ok \/ rollback_ok THEN "returned" ELSE "failed"
          ELSE /\ UNCHANGED <<store, lost, lastFlush>>
               /\ mpc' = "returned"
    /\ UNCHANGED <<visited, queue, article_batch, lock, pc, current, article_data,
                   fetchCount, appended, sigBatch, unslept,
                   seqVars, qfVars, cmVars, qeVars>>

\* KeyboardInterrupt raised in the main thread inside the with block
Interrupt ==
    /\ mpc = "monitor"
    /\ mpc' = "interrupted"
    /\ sigBatch' = article_batch
    /\ UNCHANGED <<shared, article_batch, lock, pc, current, article_data,
                   fetchCount, appended, lost, lastFlush, unslept,
                   seqVars, qfVars, cmVars, qeVars>>

\* the exception leaves the with block (which waits for the workers), the except
\* clause re-raises it, main() logs it and closes the connection
Reraise ==
    /\ mpc = "interrupted"
    /\ AllStopped
    /\ mpc' = "raised"
    /\ UNCHANGED <<shared, article_batch, lock, pc, current, article_data,
                   fetchCount, appended, lost, sigBatch, lastFlush, unslept,
                   seqVars, qfVars, cmVars, qeVars>>

Worker(w) ==
    \/ LoopCheck(w)
    \/ Dequeue(w)
    \/ CheckVisited(w)
    \/ FetchArticle(w)
    \/ Record(w)
    \/ Flush(w)
    \/ RateLimitSleep(w)

Next ==
    \/ Populate
    \/ \E w \in Workers : Worker(w)
    \/ MonitorExit
    \/ Join
    \/ FinalFlush
    \/ Interrupt
    \/ Reraise

Spec == Init /\ [][Next]_vars

\* the same crawl when every thread keeps being scheduled: the main thread
\* gets through populate_initial_queue, and a worker that can take a step
\* takes one: requests time out (timeout=10) so fetch_article returns,
\* executemany and commit return, time.sleep returns, and a worker waiting
\* for the lock gets it once the other workers have ended or sleep
SpecLive ==
    /\ Init
    /\ [][Next]_vars
    /\ WF_vars(Populate)
    /\ \A w \in Workers : WF_vars(Worker(w))

----------------------------------------------------------------------------
(* script.py: the sequential crawler.                                      *)

\* script.py:56  MAX_ARTICLES = 3000
SEQ_MAX_ARTICLES == 3
\* script.py:217  len(queue) < 10000
SeqMaxQueueSize == 3
\* script.py:93  max_retries: int = 3
MaxRetries == 3

\* current.startswith("Category:")
IsCategory(t) == t \in Categories

Pow2(n) == IF n = 0 THEN 1 ELSE IF n = 1 THEN 2 ELSE IF n = 2 THEN 4 ELSE 8

MCOff ==
    /\ article_batch = <<>> /\ lock = NoWorker
    /\ pc = [w \in Workers |-> "idle"]
    /\ current = [w \in Workers |-> ""]
    /\ article_data = [w \in Workers |-> NoData]
    /\ mpc = "off"
    /\ fetchCount = [t \in Titles |-> 0]
    /\ appended = {} /\ lost = {} /\ sigBatch = <<>>
    /\ lastFlush = [firstOk |-> TRUE, attempts |-> 0]
    /\ unslept = [w \in Workers |-> FALSE]

\* module level: visited = set(); queue = deque(); the table as found
InitSeq ==
    /\ visited = {}
    /\ queue = <<>>
    /\ \E pre \in SUBSET Preloaded :
          store = {[title |-> t, content |-> <<t, 0>>] : t \in pre}
    /\ spc = "start" /\ scur = "" /\ attempt = 0 /\ delays = <<>>
    /\ sresp = "none" /\ sattempted = {}
    /\ MCOff
    /\ QFOff
    /\ CMOff
    /\ QEOff

\* crawl_category: for title, ns in members: append when ns is 0 or 14 and the
\* title is not visited (no limit on the queue length here)
RECURSIVE SeqAppendMembers(_, _, _)
SeqAppendMembers(q, members, vis) ==
    IF members = <<>> THEN q
    ELSE LET title == Head(members)[1]
             ns    == Head(members)[2]
         IN  SeqAppendMembers(
                 IF ns \in {0, 14} /\ title \notin vis THEN Append(q, title) ELSE q,
                 Tail(members), vis)

\* crawl_category: for link in new_links: append when not visited and room
RECURSIVE SeqAppendLinks(_, _, _)
SeqAppendLinks(q, links, vis) ==
    IF links = <<>> THEN q
    ELSE SeqAppendLinks(
             IF Head(links) \notin vis /\ Len(q) < SeqMaxQueueSize
                 THEN Append(q, Head(links)) ELSE q,
             Tail(links), vis)

\* INSERT INTO wiki_articles ...; an IntegrityError (duplicate title) is caught
SeqInsert(st, r) ==
    IF \E s \in st : s.title = r.title THEN st ELSE st \cup {r}

\* crawl_category: queue.append(seed_category)
SeqStart ==
    /\ spc = "start"
    /\ queue' = Append(queue, SEED_CATEGORIES[1])
    /\ spc' = "loop"
    /\ UNCHANGED <<visited, store, scur, attempt, delays, sresp, sattempted,
                   mcVars, qfVars, cmVars, qeVars>>

\* while queue and len(visited) < MAX_ARTICLES: current = queue.popleft(); a
\* category goes to fetch_category_members, an article to fetch_article, which
\* returns [] at once for a visited title
SeqLoop ==
    /\ spc = "loop"
    /\ IF queue = <<>> \/ Cardinality(visited) >= SEQ_MAX_ARTICLES
          THEN /\ spc' = "done"
               /\ UNCHANGED <<queue, scur, attempt, delays, sresp, sattempted>>
          ELSE /\ queue' = Tail(queue)
               /\ IF IsCategory(Head(queue))
                     THEN /\ spc' = "category"
                          /\ scur' = Head(queue)
                          /\ sresp' = "pending" /\ attempt' = 0 /\ delays' = <<>>
                          /\ UNCHANGED sattempted
                  ELSE IF Head(queue) \in visited
                     THEN /\ spc' = "loop"
                          /\ UNCHANGED <<scur, attempt, delays, sresp, sattempted>>
                  ELSE    /\ spc' = "summary"
                          /\ scur' = Head(queue)
                          /\ sresp' = "pending" /\ attempt' = 0 /\ delays' = <<>>
                          /\ sattempted' = sattempted \cup {Head(queue)}
    /\ UNCHANGED <<visited, store, mcVars, qfVars, cmVars, qeVars>>

\* retry_request: one iteration of for attempt in range(max_retries)
RetryRequest ==
    /\ spc \in {"category", "summary", "content"}
    /\ sresp = "pending"
    /\ \E ok \in BOOLEAN :
          IF ok
             THEN /\ sresp' = "response"
                  /\ UNCHANGED <<attempt, delays>>
             ELSE /\ delays' = IF attempt < MaxRetries - 1
                                   THEN Append(delays, Pow2(attempt)) ELSE delays
                  /\ attempt' = attempt + 1
                  /\ sresp' = IF attempt + 1 < MaxRetries THEN "pending" ELSE "none"
    /\ UNCHANGED <<shared, spc, scur, sattempted, mcVars, qfVars, cmVars, qeVars>>

\* crawl_category after fetch_category_members returned (members, or [] when
\* retry_request gave None)
SeqCategory ==
    /\ spc = "category"
    /\ sresp # "pending"
    /\ queue' = SeqAppendMembers(
                    queue, IF sresp = "response" THEN CategoryMembers(scur) ELSE <<>>,
                    visited)
    /\ spc' = "loop" /\ scur' = "" /\ sresp' = "none" /\ attempt' = 0 /\ delays' = <<>>
    /\ UNCHANGED <<visited, store, sattempted, mcVars, qfVars, cmVars, qeVars>>

\* fetch_article after the summary request: return [] when it gave None or
\* when summary_resp.json() raises
SeqSummary ==
    /\ spc = "summary"
    /\ sresp # "pending"
    /\ \E decoded \in BOOLEAN :
          IF sresp = "response" /\ decoded
             THEN spc' = "content" /\ scur' = scur /\ sresp' = "pending"
             ELSE spc' = "loop" /\ scur' = "" /\ sresp' = "none"
    /\ attempt' = 0 /\ delays' = <<>>
    /\ UNCHANGED <<shared, sattempted, mcVars, qfVars, cmVars, qeVars>>

\* fetch_article after the content request: return [] when it gave None or
\* when decoding or the database raises (outcome "error"); mark visited and
\* return [] when the quality check rejects; else save, mark visited and hand
\* the links to crawl_category
SeqContent ==
    /\ spc = "content"
    /\ sresp # "pending"
    /\ IF sresp = "none"
          THEN UNCHANGED shared
          ELSE \E outcome \in {"error", "reject", "ok"} :
                  /\ visited' = IF outcome = "error" THEN visited
                                ELSE visited \cup {scur}
                  /\ store' = IF outcome = "ok"
                                  THEN SeqInsert(store, Row(Article(scur, 1)))
                                  ELSE store
                  /\ queue' = IF outcome = "ok"
                                  THEN SeqAppendLinks(queue, Links(scur), visited')
                                  ELSE queue
    /\ spc' = "loop" /\ scur' = "" /\ sresp' = "none" /\ attempt' = 0 /\ delays' = <<>>
    /\ UNCHANGED <<sattempted, mcVars, qfVars, cmVars, qeVars>>

NextSeq ==
    \/ SeqStart
    \/ SeqLoop
    \/ RetryRequest
    \/ SeqCategory
    \/ SeqSummary
    \/ SeqContent

SpecSeq == InitSeq /\ [][NextSeq]_vars

\* the same run when the interpreter keeps executing the single thread: every
\* request returns or times out (timeout=10) and every sleep returns
SpecSeqLive == InitSeq /\ [][NextSeq]_vars /\ WF_vars(NextSeq)

----------------------------------------------------------------------------
(* The quality filters.  Strings are sequences of one-character strings.   *)

UpperCase == <<"A", "B", "C", "D", "E", "F", "G", "H", "I", "J", "K", "L", "M", "N", "O", "P", "Q", "R", "S", "T", "U", "V", "W", "X", "Y", "Z">>
LowerCase == <<"a", "b", "c", "d", "e", "f", "g", "h", "i", "j", "k", "l", "m", "n", "o", "p", "q", "r", "s", "t", "u", "v", "w", "x", "y", "z">>

\* str.lower(), character by character
LowerChar(c) ==
    IF \E i \in DOMAIN UpperCase : UpperCase[i] = c
        THEN LowerCase[CHOOSE i \in DOMAIN UpperCase : UpperCase[i] = c]
        ELSE c
Lower(str) == [i \in DOMAIN str |-> LowerChar(str[i])]

\* pattern in str
Contains(str, pattern) ==
    \E i \in 1..(Len(str) - Len(pattern) + 1) :
        SubSeq(str, i, i + Len(pattern) - 1) = pattern

\* str.startswith(prefix)
StartsWith(str, prefix) ==
    Len(str) >= Len(prefix) /\ SubSeq(str, 1, Len(prefix)) = prefix

\* mass_crawler.py:154  skip_patterns
skip_patterns == <<
    <<"d", "i", "s", "a", "m", "b", "i", "g", "u", "a", "t", "i", "o", "n">>,
    <<"m", "a", "y", " ", "r", "e", "f", "e", "r", " ", "t", "o">>,
    <<"l", "i", "s", "t", " ", "o", "f">>,
    <<"i", "n", "d", "e", "x", " ", "o", "f">>,
    <<"c", "a", "t", "e", "g", "o", "r", "y", ":">>,
    <<"t", "e", "m", "p", "l", "a", "t", "e", ":">>,
    <<"f", "i", "l", "e", ":">>,
    <<"p", "o", "r", "t", "a", "l", ":">> >>

\* mass_crawler.py:167  len(content) < 1000
ContentMinLength == 1000
\* mass_crawler.py:171  len(summary) < 100
SummaryMinLength == 100
\* script.py:84  len(content) < 500
SeqContentMinLength == 500

\* mass_crawler.py: for pattern in skip_patterns: return False on the first hit
RECURSIVE NoSkipPattern(_, _, _)
NoSkipPattern(patterns, title_lower, summary_lower) ==
    IF patterns = <<>> THEN TRUE
    ELSE IF Contains(title_lower, Head(patterns)) \/ Contains(summary_lower, Head(patterns))
        THEN FALSE
    ELSE NoSkipPattern(Tail(patterns), title_lower, summary_lower)

\* faulty variant: the length tests use <= instead of <
is_quality_article_OffByOne(title, content, summary) ==
    IF ~NoSkipPattern(skip_patterns, Lower(title), Lower(summary)) THEN FALSE
    ELSE IF Len(content) <= ContentMinLength THEN FALSE
    ELSE IF Len(summary) <= SummaryMinLength THEN FALSE
    ELSE TRUE

\* MassCrawler.is_quality_article
is_quality_article(title, content, summary) ==
    IF ~NoSkipPattern(skip_patterns, Lower(title), Lower(summary)) THEN FALSE
    ELSE IF Len(content) < ContentMinLength THEN FALSE
    ELSE IF Len(summary) < SummaryMinLength THEN FALSE
    ELSE TRUE

\* script.py is_quality_article
seq_is_quality_article(title, content, summary) ==
    IF Contains(Lower(title), <<"d", "i", "s", "a", "m", "b", "i", "g", "u", "a", "t", "i", "o", "n">>)
       \/ Contains(Lower(summary), <<"m", "a", "y", " ", "r", "e", "f", "e", "r", " ", "t", "o">>)
        THEN FALSE
    ELSE IF Len(content) < SeqContentMinLength THEN FALSE
    ELSE IF StartsWith(title, <<"L", "i", "s", "t", " ", "o", "f">>)
            \/ StartsWith(title, <<"I", "n", "d", "e", "x", " ", "o", "f">>)
        THEN FALSE
    ELSE TRUE

\* the inputs the filters are applied to
QFTitles == {
    <<"A", "l", "a", "n", " ", "T", "u", "r", "i", "n", "g">>,
    <<"L", "i", "s", "t", " ", "o", "f", " ", "r", "i", "v", "e", "r", "s">>,
    <<"A", " ", "s", "h", "o", "r", "t", " ", "l", "i", "s", "t", " ", "o", "f", " ", "r", "i", "v", "e", "r", "s">>,
    <<"M", "e", "r", "c", "u", "r", "y", " ", "(", "d", "i", "s", "a", "m", "b", "i", "g", "u", "a", "t", "i", "o", "n", ")">>,
    <<"I", "N", "D", "E", "X", " ", "O", "F", " ", "F", "I", "L", "E", "S">>,
    <<"I", "n", "d", "e", "x", " ", "o", "f", " ", "f", "i", "l", "e", "s">>,
    <<"C", "a", "t", "e", "g", "o", "r", "y", ":", "P", "h", "y", "s", "i", "c", "s">>,
    <<"T", "e", "m", "p", "l", "a", "t", "e", ":", "I", "n", "f", "o", "b", "o", "x">>,
    <<"P", "r", "o", "f", "i", "l", "e", ":", " ", "A", "d", "a">>,
    <<"P", "o", "r", "t", "a", "l", ":", "S", "c", "i", "e", "n", "c", "e">> }
QFSummaryTexts == {
    <<>>,
    <<"A", "n", " ", "E", "n", "g", "l", "i", "s", "h", " ", "m", "a", "t", "h", "e", "m", "a", "t", "i", "c", "i", "a", "n">>,
    <<"M", "e", "r", "c", "u", "r", "y", " ", "m", "a", "y", " ", "r", "e", "f", "e", "r", " ", "t", "o">>,
    <<"I", "t", " ", "M", "A", "Y", " ", "R", "E", "F", "E", "R", " ", "T", "O", " ", "a", " ", "p", "l", "a", "n", "e", "t">>,
    <<"S", "e", "e", " ", "t", "h", "e", " ", "L", "i", "s", "t", " ", "o", "f", " ", "r", "i", "v", "e", "r", "s">> }
QFSummaryLengths == {0, 24, 99, 100, 101}
QFContentLengths == {0, 99, 100, 101, 499, 500, 999, 1000, 1001}

\* a string of n filler characters; text padded with filler to length n
Filler(n) == [i \in 1..n |-> "z"]
Padded(text, n) == IF Len(text) >= n THEN text ELSE text \o Filler(n - Len(text))

InitQF ==
    /\ \E t \in QFTitles, c \in QFContentLengths,
          st \in QFSummaryTexts, sl \in QFSummaryLengths :
          qfIn = [title |-> t, content |-> c, summary |-> Padded(st, sl)]
    /\ qfOut = <<>>
    /\ visited = {} /\ queue = <<>> /\ store = {}
    /\ CMOff
    /\ MCOff
    /\ SeqOff
    /\ QEOff

\* both predicates applied to the input; nothing else is touched
ApplyFilter ==
    /\ qfOut = <<>>
    /\ qfOut' = << is_quality_article(qfIn.title, Filler(qfIn.content), qfIn.summary),
                   seq_is_quality_article(qfIn.title, Filler(qfIn.content), qfIn.summary) >>
    /\ UNCHANGED <<qfIn, shared, mcVars, seqVars, cmVars, qeVars>>

NextQF == ApplyFilter

SpecQF == InitQF /\ [][NextQF]_vars

----------------------------------------------------------------------------
(* python/advanced_search.py: AdvancedSearchEngine.                        *)
(*                                                                         *)
(* A tf-idf row is abstracted to its direction, one of Vectors; cosines    *)
(* are integers in thousandths, so 0.01 is 10 and 0.1 is 100.  The rows    *)
(* that build_search_index selects (clean_content longer than 100, ORDER   *)
(* BY id) are numbered 1..nrows; row i has direction docVec[i] and the id  *)
(* article_id(i).  No code of the repository deletes from wiki_articles,   *)
(* so nrows only grows.                                                    *)

\* the largest store, the largest corpus of a model whose rows are drawn
\* freely, and the largest limit passed to a query
MaxDocs == 4
QueryDocs == 3
MaxLimit == 3

\* advanced_search.py:98  min_df=2
min_df == 2
\* advanced_search.py:99  max_df=0.8, in tenths
max_df_tenths == 8
\* advanced_search.py:166  similarity_score > 0.01, in thousandths
MinSimilarity == 10
\* advanced_search.py:209  similarities[idx] > 0.1, in thousandths
RelatedFloor == 100

\* "z" is the direction of a text none of whose terms is in the vocabulary
Vectors == {"u", "v", "w", "z"}
IdxVectors == {"u", "w"}
\* the store of SpecIdx: rows 1 and 3 have the same direction
IdxCorpus == [i \in 1..MaxDocs |-> IF i % 2 = 1 THEN "u" ELSE "w"]
Limits == 0..MaxLimit

\* sklearn's cosine_similarity, by table: equal directions give 1.0, the zero
\* vector gives 0.0 against everything (itself included), u.v is exactly 0.01
\* and u.w exactly 0.1
cosine_similarity(a, b) ==
    IF a = "z" \/ b = "z" THEN 0
    ELSE IF a = b THEN 1000
    ELSE IF {a, b} = {"u", "v"} THEN 10
    ELSE IF {a, b} = {"u", "w"} THEN 100
    ELSE 500

\* the AUTO_INCREMENT id of the i-th selected row: ascending, not the row number
article_id(i) == 10 * i + 1

\* cursor.fetchone() for "WHERE id = %s" is a row
HasArticle(id) == \E i \in 1..nrows : article_id(i) = id

\* the orders of equal keys that are modelled: the stable one (what numpy's
\* insertion sort gives on short arrays) and its mirror image
TieOrders(n) == {[i \in 1..n |-> i], [i \in 1..n |-> n + 1 - i]}

\* s[start:] of Python, start possibly negative
SliceFrom(s, start) ==
    LET n == Len(s)
        b == IF start < 0 THEN (IF n + start < 0 THEN 0 ELSE n + start)
             ELSE (IF start > n THEN n ELSE start)
    IN  [k \in 1..(n - b) |-> s[b + k]]

\* s[:stop] of Python, stop possibly negative
SliceTo(s, stop) ==
    LET n == Len(s)
        e == IF stop < 0 THEN (IF n + stop < 0 THEN 0 ELSE n + stop)
             ELSE (IF stop > n THEN n ELSE stop)
    IN  [k \in 1..e |-> s[k]]

\* faulty variant: the [::-1] step left out
Reversed_Omitted(s) == s

\* s[::-1]
Reversed(s) == [k \in 1..Len(s) |-> s[Len(s) + 1 - k]]

\* numpy's argsort: row numbers by ascending key.  Its default sort is not
\* stable; where keys are equal the order is the one the build's sort leaves,
\* given here by rank.
argsort(sim, rank) ==
    LET n == Len(sim)
        Before(j, i) == \/ sim[j] < sim[i]
                        \/ sim[j] = sim[i] /\ rank[j] < rank[i]
        position == [i \in 1..n |-> 1 + Cardinality({j \in 1..n : Before(j, i)})]
    IN  [k \in 1..n |-> CHOOSE i \in 1..n : position[i] = k]

\* cosine_similarity(vector, self.tfidf_matrix).flatten()
Similarities(vector, rows) == [i \in 1..Len(rows) |-> cosine_similarity(vector, rows[i])]

\* lines 160-187 of advanced_search: the list it returns
SearchResults(rows, ids, rank, query_vector, limit) ==
    LET similarities == Similarities(query_vector, rows)
        top_indices == Reversed(SliceFrom(argsort(similarities, rank), 0 - limit))
        Keep(idx) == similarities[idx] > MinSimilarity /\ HasArticle(ids[idx])
        kept == SelectSeq(top_indices, Keep)
    IN  [k \in 1..Len(kept) |->
            [id |-> ids[kept[k]], score |-> similarities[kept[k]]]]

\* line 167: self.article_ids[idx] for a row that passed the threshold and
\* has no entry in article_ids raises an IndexError
SearchOverruns(rows, ids, rank, query_vector, limit) ==
    /\ Len(ids) < Len(rows)
    /\ LET similarities == Similarities(query_vector, rows)
           top_indices == Reversed(SliceFrom(argsort(similarities, rank), 0 - limit))
       IN  \E k \in 1..Len(top_indices) :
               /\ similarities[top_indices[k]] > MinSimilarity
               /\ top_indices[k] > Len(ids)

\* faulty variant: the target row is not skipped
RelatedKeep_WithSelf(idx, target_idx, similarities) ==
    similarities[idx] > RelatedFloor

\* line 209: idx != target_idx and similarities[idx] > 0.1
RelatedKeep(idx, target_idx, similarities) ==
    idx # target_idx /\ similarities[idx] > RelatedFloor

\* faulty variant: the window is the top `limit` rows, not limit + 1, so the
\* target takes one of the places
RelatedResults_NarrowWindow(rows, ids, rank, target_idx, limit) ==
    LET similarities == Similarities(rows[target_idx], rows)
        top_indices == Reversed(SliceFrom(argsort(similarities, rank), 0 - limit))
        Keep(idx) == RelatedKeep(idx, target_idx, similarities) /\ HasArticle(ids[idx])
        kept == SelectSeq(top_indices, Keep)
    IN  SliceTo([k \in 1..Len(kept) |->
                    [id |-> ids[kept[k]], score |-> similarities[kept[k]]]], limit)

\* lines 199-229 of get_related_articles: the list it returns
RelatedResults(rows, ids, rank, target_idx, limit) ==
    LET similarities == Similarities(rows[target_idx], rows)
        top_indices == Reversed(SliceFrom(argsort(similarities, rank), 0 - limit - 1))
        Keep(idx) == RelatedKeep(idx, target_idx, similarities) /\ HasArticle(ids[idx])
        kept == SelectSeq(top_indices, Keep)
    IN  SliceTo([k \in 1..Len(kept) |->
                    [id |-> ids[kept[k]], score |-> similarities[kept[k]]]], limit)

\* line 210: self.article_ids[idx] for a row that was kept and has no entry
\* in article_ids raises an IndexError
RelatedOverruns(rows, ids, rank, target_idx, limit) ==
    /\ Len(ids) < Len(rows)
    /\ LET similarities == Similarities(rows[target_idx], rows)
           top_indices == Reversed(SliceFrom(argsort(similarities, rank), 0 - limit - 1))
       IN  \E k \in 1..Len(top_indices) :
               /\ RelatedKeep(top_indices[k], target_idx, similarities)
               /\ top_indices[k] > Len(ids)

\* self.article_ids.index(article_id): the first position holding it
IndexOf(ids, id) == CHOOSE i \in 1..Len(ids) : ids[i] = id /\ \A j \in 1..(i - 1) : ids[j] # id

\* faulty variant: the matrix is not looked at
Uninitialized_VectorizerOnly == vectorizer = "None"

\* `not self.vectorizer or self.tfidf_matrix is None`
Uninitialized == vectorizer = "None" \/ tfidf_matrix = NoMatrix

SearchCall(query_vector, limit) ==
    [op |-> "search", query |-> query_vector, article_id |-> 0, limit |-> limit,
     partial_query |-> <<>>]
RelatedCall(id, limit) ==
    [op |-> "related", query |-> "", article_id |-> id, limit |-> limit,
     partial_query |-> <<>>]

\* advanced_search(query, limit); query_vector is what the vectorizer makes of
\* the query.  transform() of a vectorizer that was never fitted raises, and
\* so does a kept row past article_ids.
Search(query_vector, limit) ==
    /\ call' = SearchCall(query_vector, limit)
    /\ IF Uninitialized
       THEN results' = <<>> /\ status' = "returned"
       ELSE IF vectorizer = "unfitted"
       THEN results' = <<>> /\ status' = "NotFittedError"
       ELSE IF SearchOverruns(tfidf_matrix.rows, article_ids, argsortRank,
                              query_vector, limit)
       THEN results' = <<>> /\ status' = "IndexError"
       ELSE /\ results' = SearchResults(tfidf_matrix.rows, article_ids, argsortRank,
                                        query_vector, limit)
            /\ status' = "returned"
    /\ UNCHANGED <<idxVars, sugVars, shared, mcVars, seqVars, qfVars, cmVars>>

\* get_related_articles(article_id, limit).  index() raises the ValueError
\* that the handler turns into an empty list; a row number past the matrix,
\* or a kept row past article_ids, raises an IndexError that it does not catch.
Related(id, limit) ==
    /\ call' = RelatedCall(id, limit)
    /\ IF Uninitialized
       THEN results' = <<>> /\ status' = "returned"
       ELSE IF \A i \in 1..Len(article_ids) : article_ids[i] # id
       THEN results' = <<>> /\ status' = "returned"
       ELSE IF IndexOf(article_ids, id) > Len(tfidf_matrix.rows)
       THEN results' = <<>> /\ status' = "IndexError"
       ELSE IF RelatedOverruns(tfidf_matrix.rows, article_ids, argsortRank,
                               IndexOf(article_ids, id), limit)
       THEN results' = <<>> /\ status' = "IndexError"
       ELSE /\ results' = RelatedResults(tfidf_matrix.rows, article_ids, argsortRank,
                                         IndexOf(article_ids, id), limit)
            /\ status' = "returned"
    /\ UNCHANGED <<idxVars, sugVars, shared, mcVars, seqVars, qfVars, cmVars>>

\* the ids asked for: the id of each of the first n rows, and one that no
\* row has
AskedIds(n) == {article_id(i) : i \in 1..n} \cup {0}

\* a built engine: the state build_search_index leaves when it returns True
Snapshot(rows, ids) == [kind |-> "snapshot", rows |-> rows, ids |-> ids]
Matrix(rows) == [kind |-> "matrix", rows |-> rows]
SelectedIds(n) == [i \in 1..n |-> article_id(i)]
SelectedRows(n) == [i \in 1..n |-> docVec[i]]

\* CountVectorizer.fit_transform raises "max_df corresponds to < documents
\* than min_df" when max_df * n_doc < min_df
FitRejects(n) == max_df_tenths * n < min_df * 10

EngineCall(op) == [op |-> op, query |-> "", article_id |-> 0, limit |-> 0,
                   partial_query |-> <<>>]

\* faulty variant: self.article_ids = [] runs before `if not articles`
build_search_index_ResetFirst(db_ok, fit_ok, save_ok, torn) ==
    /\ status' = "False"
    /\ article_ids' = <<>>
    /\ UNCHANGED <<vectorizer, tfidf_matrix, model_file, succeeded>>

\* build_search_index().  db_ok: the table is there and SHOW TABLES did not
\* raise; fit_ok: fit_transform found terms to keep; save_ok: save_model wrote
\* the file; torn: a failed save_model had already truncated the file.
\* article_ids is rebound at line 78, self.vectorizer at line 94 and
\* self.tfidf_matrix at line 103, each before the next step can fail.
build_search_index(db_ok, fit_ok, save_ok, torn) ==
    IF ~db_ok \/ nrows = 0
    THEN /\ status' = "False"
         /\ UNCHANGED <<vectorizer, tfidf_matrix, article_ids, model_file, succeeded>>
    ELSE /\ article_ids' = SelectedIds(nrows)
         /\ IF FitRejects(nrows) \/ ~fit_ok
            THEN /\ vectorizer' = "unfitted"
                 /\ status' = "raised"
                 /\ UNCHANGED <<tfidf_matrix, model_file, succeeded>>
            ELSE /\ vectorizer' = "fitted"
                 /\ tfidf_matrix' = Matrix(SelectedRows(nrows))
                 /\ IF save_ok
                    THEN /\ model_file' = Snapshot(SelectedRows(nrows), SelectedIds(nrows))
                         /\ status' = "True"
                         /\ succeeded' = TRUE
                    ELSE /\ model_file' = IF torn THEN [kind |-> "corrupt"] ELSE model_file
                         /\ status' = "raised"
                         /\ UNCHANGED succeeded

\* load_model(): a missing file (line 128) and a file whose pickle.load raises
\* (line 142) both end in build_search_index
load_model(db_ok, fit_ok, save_ok, torn) ==
    IF model_file.kind = "snapshot"
    THEN /\ vectorizer' = "fitted"
         /\ tfidf_matrix' = Matrix(model_file.rows)
         /\ article_ids' = model_file.ids
         /\ status' = "True"
         /\ succeeded' = TRUE
         /\ UNCHANGED model_file
    ELSE build_search_index(db_ok, fit_ok, save_ok, torn)

Build ==
    /\ \E db_ok, fit_ok, save_ok, torn \in BOOLEAN :
          build_search_index(db_ok, fit_ok, save_ok, torn)
    /\ call' = EngineCall("build")
    /\ results' = <<>>
    /\ UNCHANGED <<docVec, nrows, argsortRank, bpc, sugVars,
                   shared, mcVars, seqVars, qfVars, cmVars>>

Load ==
    /\ \E db_ok, fit_ok, save_ok, torn \in BOOLEAN :
          load_model(db_ok, fit_ok, save_ok, torn)
    /\ call' = EngineCall("load")
    /\ results' = <<>>
    /\ UNCHANGED <<docVec, nrows, argsortRank, bpc, sugVars,
                   shared, mcVars, seqVars, qfVars, cmVars>>

\* a crawler commits one more row that the index SELECT will return
InsertRow ==
    /\ nrows < MaxDocs
    /\ nrows' = nrows + 1
    /\ UNCHANGED <<docVec, vectorizer, tfidf_matrix, article_ids, model_file,
                   argsortRank, succeeded, bpc, callVars, sugVars,
                   shared, mcVars, seqVars, qfVars, cmVars>>

\* the engine after __init__, over a store of any size and whatever file an
\* earlier process left: search_model.pkl lies in the working directory and
\* outlives the database it was built from
InitIdx ==
    /\ docVec = IdxCorpus
    /\ nrows \in 0..MaxDocs
    /\ vectorizer = "None" /\ tfidf_matrix = NoMatrix /\ article_ids = <<>>
    /\ model_file \in {[kind |-> "missing"], [kind |-> "corrupt"]}
                      \cup {Snapshot(SelectedRows(m), SelectedIds(m)) :
                              m \in {k \in 1..MaxDocs : ~FitRejects(k)}}
    /\ argsortRank = [i \in 1..MaxDocs |-> i]
    /\ call = NoCall /\ results = <<>> /\ status = "none"
    /\ succeeded = FALSE /\ bpc = "idle"
    /\ titles = {} /\ storeQueried = FALSE /\ storeError = FALSE
    /\ visited = {} /\ queue = <<>> /\ store = {}
    /\ MCOff
    /\ SeqOff
    /\ QFOff
    /\ CMOff

\* any query on the engine, the search queries taken from query_vectors and
\* the ids asked about from ids
Query(query_vectors, ids) ==
    \/ \E query_vector \in query_vectors, limit \in Limits : Search(query_vector, limit)
    \/ \E id \in ids, limit \in Limits : Related(id, limit)

NextIdx == Build \/ Load \/ InsertRow \/ Query(IdxVectors, AskedIds(MaxDocs))

SpecIdx == InitIdx /\ [][NextIdx]_vars

----------------------------------------------------------------------------
(* build_search_index statement by statement, for a caller that queries    *)
(* the same engine from another thread while it runs.  The fields are      *)
(* rebound on the engine itself, one after the other, and the class holds  *)
(* no lock.  call, results and status are those of the querying thread;    *)
(* bpc holds the position of the build and, once it ended, how it ended.   *)

BuildEnded == bpc \in {"idle", "False", "True", "raised"}

\* lines 45-91: the table check, the SELECT, `if not articles: return False`,
\* then self.article_ids = [] and one append per row
BuildSelect ==
    /\ BuildEnded
    /\ \E db_ok \in BOOLEAN :
          IF ~db_ok \/ nrows = 0
          THEN bpc' = "False" /\ UNCHANGED article_ids
          ELSE bpc' = "vectorizer" /\ article_ids' = SelectedIds(nrows)
    /\ UNCHANGED <<docVec, nrows, vectorizer, tfidf_matrix, model_file, argsortRank,
                   succeeded, callVars, sugVars, shared, mcVars, seqVars, qfVars, cmVars>>

\* lines 94-101: self.vectorizer = TfidfVectorizer(...)
BuildVectorizer ==
    /\ bpc = "vectorizer"
    /\ vectorizer' = "unfitted"
    /\ bpc' = "fit"
    /\ UNCHANGED <<docVec, nrows, tfidf_matrix, article_ids, model_file, argsortRank,
                   succeeded, callVars, sugVars, shared, mcVars, seqVars, qfVars, cmVars>>

\* line 103, right-hand side: self.vectorizer.fit_transform(documents) fits
\* the vectorizer the engine already holds, or raises; documents are the rows
\* that BuildSelect read
BuildFit ==
    /\ bpc = "fit"
    /\ \E fit_ok \in BOOLEAN :
          IF FitRejects(Len(article_ids)) \/ ~fit_ok
          THEN bpc' = "raised" /\ UNCHANGED vectorizer
          ELSE bpc' = "matrix" /\ vectorizer' = "fitted"
    /\ UNCHANGED <<docVec, nrows, tfidf_matrix, article_ids, model_file, argsortRank,
                   succeeded, callVars, sugVars, shared, mcVars, seqVars, qfVars, cmVars>>

\* line 103, the assignment: self.tfidf_matrix = ...
BuildMatrix ==
    /\ bpc = "matrix"
    /\ tfidf_matrix' = Matrix(SelectedRows(Len(article_ids)))
    /\ bpc' = "save"
    /\ UNCHANGED <<docVec, nrows, vectorizer, article_ids, model_file, argsortRank,
                   succeeded, callVars, sugVars, shared, mcVars, seqVars, qfVars, cmVars>>

\* lines 106-109: self.save_model(); return True
BuildSave ==
    /\ bpc = "save"
    /\ \E save_ok, torn \in BOOLEAN :
          IF save_ok
          THEN /\ model_file' = Snapshot(tfidf_matrix.rows, article_ids)
               /\ bpc' = "True"
               /\ succeeded' = TRUE
          ELSE /\ model_file' = IF torn THEN [kind |-> "corrupt"] ELSE model_file
               /\ bpc' = "raised"
               /\ UNCHANGED succeeded
    /\ UNCHANGED <<docVec, nrows, vectorizer, tfidf_matrix, article_ids, argsortRank,
                   callVars, sugVars, shared, mcVars, seqVars, qfVars, cmVars>>

\* the engine of a process that has loaded the snapshot of its first m rows,
\* or none (m = 0), over a store that has grown since
InitRebuild ==
    /\ docVec = IdxCorpus
    /\ \E m \in {0} \cup {k \in 1..MaxDocs : ~FitRejects(k)} :
          /\ nrows \in m..MaxDocs
          /\ IF m = 0
             THEN /\ vectorizer = "None" /\ tfidf_matrix = NoMatrix /\ article_ids = <<>>
                  /\ model_file = [kind |-> "missing"]
                  /\ succeeded = FALSE
             ELSE /\ vectorizer = "fitted"
                  /\ tfidf_matrix = Matrix(SelectedRows(m))
                  /\ article_ids = SelectedIds(m)
                  /\ model_file = Snapshot(SelectedRows(m), SelectedIds(m))
                  /\ succeeded = TRUE
    /\ argsortRank = [i \in 1..MaxDocs |-> i]
    /\ call = NoCall /\ results = <<>> /\ status = "none"
    /\ bpc = "idle"
    /\ titles = {} /\ storeQueried = FALSE /\ storeError = FALSE
    /\ visited = {} /\ queue = <<>> /\ store = {}
    /\ MCOff
    /\ SeqOff
    /\ QFOff
    /\ CMOff

NextRebuild ==
    \/ BuildSelect
    \/ BuildVectorizer
    \/ BuildFit
    \/ BuildMatrix
    \/ BuildSave
    \/ InsertRow
    \/ Query(IdxVectors, AskedIds(MaxDocs))

SpecRebuild == InitRebuild /\ [][NextRebuild]_vars

\* the engine as a successful build_search_index leaves it, over any corpus
\* the vectorizer accepts and any order of equal keys
InitQuery ==
    /\ \E n \in {k \in 1..QueryDocs : ~FitRejects(k)} :
          /\ nrows = n
          /\ docVec \in [1..n -> Vectors]
    /\ vectorizer = "fitted"
    /\ tfidf_matrix = Matrix(SelectedRows(nrows))
    /\ article_ids = SelectedIds(nrows)
    /\ model_file = Snapshot(SelectedRows(nrows), SelectedIds(nrows))
    /\ argsortRank \in TieOrders(QueryDocs)
    /\ call = NoCall /\ results = <<>> /\ status = "none"
    /\ succeeded = TRUE /\ bpc = "idle"
    /\ titles = {} /\ storeQueried = FALSE /\ storeError = FALSE
    /\ visited = {} /\ queue = <<>> /\ store = {}
    /\ MCOff
    /\ SeqOff
    /\ QFOff
    /\ CMOff

NextQuery == Query(Vectors, AskedIds(QueryDocs))

SpecQuery == InitQuery /\ [][NextQuery]_vars

----------------------------------------------------------------------------
(* python/advanced_search.py: search_suggestions.  Titles and queries are  *)
(* sequences of characters.                                                *)

\* the largest limit passed to search_suggestions
MaxSuggestions == 3
\* advanced_search.py:237  len(partial_query) < 2
MinQueryLen == 2

TitlePool == {
    <<"C", "a", "t">>,
    <<"C", "a", "b">>,
    <<"C", "a", "t", "e", "g", "o", "r", "y", " ", "T", "h", "e", "o", "r", "y">>,
    <<"C", "o", "n", "c", "a", "t", "e", "n", "a", "t", "i", "o", "n">>,
    <<"a", "a", "_">>,
    <<"a", "_", "b", "c">> }

PartialQueries == {
    <<>>,
    <<"C">>,
    <<"c", "a">>,
    <<"C", "a", "t">>,
    <<"a", "_">> }

\* title LIKE pattern in MySQL: % is any run of characters, _ any one
\* character, and the column's default collation compares letters without
\* regard to case.  The query text is bound as it is, so a % or _ in it is a
\* wildcard as well.
RECURSIVE Like(_, _)
Like(str, pattern) ==
    IF pattern = <<>> THEN str = <<>>
    ELSE IF Head(pattern) = "%"
    THEN Like(str, Tail(pattern)) \/ (str # <<>> /\ Like(Tail(str), pattern))
    ELSE /\ str # <<>>
         /\ Head(pattern) = "_" \/ LowerChar(Head(pattern)) = LowerChar(Head(str))
         /\ Like(Tail(str), Tail(pattern))

\* f"{partial_query}%" and f"%{partial_query}%"
starts_pattern(partial_query) == partial_query \o <<"%">>
contains_pattern(partial_query) == <<"%">> \o partial_query \o <<"%">>

\* CASE WHEN title LIKE starts THEN 1 ELSE 2 END
MatchClass(title, partial_query) ==
    IF Like(title, starts_pattern(partial_query)) THEN 1 ELSE 2

\* WHERE title LIKE starts OR title LIKE contains
Matching(partial_query) ==
    {t \in titles : \/ Like(t, starts_pattern(partial_query))
                    \/ Like(t, contains_pattern(partial_query))}

\* ORDER BY CASE ..., LENGTH(title): the two sort keys of a row
SortKeys(partial_query) ==
    [t \in titles |-> [class |-> MatchClass(t, partial_query), length |-> Len(t)]]

\* a comes no later than b
OrderedBefore(a, b) ==
    \/ a.class < b.class
    \/ a.class = b.class /\ a.length <= b.length

\* every order the statement may return the rows of S in: rows equal in both
\* sort keys come in whatever order the server leaves them
RECURSIVE Orderings(_, _)
Orderings(S, keys) ==
    IF S = {} THEN {<<>>}
    ELSE UNION { {<<t>> \o rest : rest \in Orderings(S \ {t}, keys)} :
                 t \in {a \in S : \A b \in S : OrderedBefore(keys[a], keys[b])} }

\* faulty variant: the length test left out
TooShort_Omitted(partial_query) == FALSE

\* line 237: len(partial_query) < 2
TooShort(partial_query) == Len(partial_query) < MinQueryLen

SuggestCall(partial_query, limit) ==
    [op |-> "suggest", query |-> "", article_id |-> 0, limit |-> limit,
     partial_query |-> partial_query]

\* search_suggestions(partial_query, limit); any exception of the store is
\* caught at line 263 and an empty list returned
Suggest(partial_query, limit) ==
    /\ call' = SuggestCall(partial_query, limit)
    /\ status' = "returned"
    /\ IF TooShort(partial_query)
       THEN /\ results' = <<>>
            /\ storeQueried' = FALSE
            /\ storeError' = FALSE
       ELSE /\ storeQueried' = TRUE
            /\ \E db_ok \in BOOLEAN :
                  /\ storeError' = ~db_ok
                  /\ IF db_ok
                     THEN \E rows \in Orderings(Matching(partial_query),
                                                SortKeys(partial_query)) :
                             results' = Prefix(rows, limit)
                     ELSE results' = <<>>
    /\ UNCHANGED <<titles, idxVars, shared, mcVars, seqVars, qfVars, cmVars>>

InitSug ==
    /\ titles \in SUBSET TitlePool
    /\ storeQueried = FALSE /\ storeError = FALSE
    /\ call = NoCall /\ results = <<>> /\ status = "none"
    /\ docVec = <<>> /\ nrows = 0
    /\ vectorizer = "None" /\ tfidf_matrix = NoMatrix /\ article_ids = <<>>
    /\ model_file = [kind |-> "missing"]
    /\ argsortRank = <<>>
    /\ succeeded = FALSE /\ bpc = "idle"
    /\ visited = {} /\ queue = <<>> /\ store = {}
    /\ MCOff
    /\ SeqOff
    /\ QFOff
    /\ CMOff

NextSug == \E partial_query \in PartialQueries, limit \in 0..MaxSuggestions :
              Suggest(partial_query, limit)

SpecSug == InitSug /\ [][NextSug]_vars

----------------------------------------------------------------------------
(* MassCrawler.fetch_category_members, page by page.                       *)

\* mass_crawler.py:238  while len(members) < 500
MemberLimit == 3
\* mass_crawler.py:239  cmlimit=500: the most members the API puts on a page
CmLimit == 3
\* the number of pages the API serves for one category is finite
MaxPageRequests == 4

\* data['query']['categorymembers'] of the page after `from` members: n members
\* of namespace ns, each named by its position in the listing
CategoryMembersPage(from, n, ns) == [i \in 1..n |-> <<from + i, ns>>]

\* the call has returned
MembersReturned == cm_pc \in {"limit", "status", "last", "raised"}

\* members = []; continue_param = None
InitMembers ==
    /\ cm_pc = "while" /\ cm_members = <<>> /\ continue_param = NoToken
    /\ cm_requests = 0 /\ cm_return = <<>>
    /\ visited = {} /\ queue = <<>> /\ store = {}
    /\ MCOff
    /\ SeqOff
    /\ QFOff
    /\ QEOff

\* while len(members) < 500; return members when the test fails
MembersLoopTest ==
    /\ cm_pc = "while"
    /\ IF Len(cm_members) < MemberLimit
          THEN cm_pc' = "request" /\ UNCHANGED cm_return
          ELSE cm_pc' = "limit" /\ cm_return' = cm_members
    /\ UNCHANGED <<cm_members, continue_param, cm_requests,
                   shared, mcVars, seqVars, qfVars, qeVars>>

\* one pass through the loop body: the request (with cmcontinue when
\* continue_param is set); break on a status other than 200; append every member of
\* the page; break when the answer carries no continuation.  An exception
\* (requests.get, resp.json(), a member without title or ns) returns [].
MembersRequest ==
    /\ cm_pc = "request"
    /\ cm_requests' = cm_requests + 1
    /\ \/ /\ cm_pc' = "raised"
          /\ cm_return' = <<>>
          /\ UNCHANGED <<cm_members, continue_param>>
       \/ /\ cm_pc' = "status"
          /\ cm_return' = cm_members
          /\ UNCHANGED <<cm_members, continue_param>>
       \/ \E n \in 0..CmLimit, ns \in {0, 14},
             more \in (IF cm_requests' < MaxPageRequests THEN BOOLEAN ELSE {FALSE}) :
             /\ cm_members' = cm_members \o CategoryMembersPage(Len(cm_members), n, ns)
             /\ continue_param' = IF more THEN cm_requests' ELSE NoToken
             /\ IF continue_param' # NoToken
                   THEN cm_pc' = "while" /\ UNCHANGED cm_return
                   ELSE cm_pc' = "last" /\ cm_return' = cm_members'
    /\ UNCHANGED <<shared, mcVars, seqVars, qfVars, qeVars>>

NextMembers == MembersLoopTest \/ MembersRequest

SpecMembers == InitMembers /\ [][NextMembers]_vars

----------------------------------------------------------------------------
(* Properties of the concurrent crawler (Spec).                            *)

HasRow(st, title) == \E r \in st : r.title = title

\* C1 (Dedup): during a whole run no title is retrieved more than once, i.e.
\* at most one fetch_article call per title gets past the visited check.
C1_Dedup == \A t \in Titles : fetchCount[t] <= 1

\* C2 (graceful stop): once run() has ended on a KeyboardInterrupt, the store
\* holds a row for every record that was in the batch buffer when the signal
\* arrived (stated for runs in which no store write failed).
C2_GracefulStop ==
    (mpc = "raised" /\ lost = {}) =>
        \A i \in DOMAIN sigBatch : HasRow(store, sigBatch[i].title)

C4_NoDequeueAfterSignal ==
    [][mpc = "interrupted" =>
          \A w \in Workers : ~(pc[w] = "dequeue" /\ pc'[w] = "check")]_vars

\* C5 (backpressure): the frontier queue never holds more than MaxQueueSize
\* entries, whichever path enqueued them.
C5_Backpressure == Len(queue) <= MaxQueueSize

\* C6 (idempotent ingestion): the store never holds two rows with one title,
\* and no step removes a row or changes one (so inserting a title that is
\* already there leaves the first-inserted row as it was).
C6_IdempotentIngestion ==
    /\ [](\A r, s \in store : r.title = s.title => r = s)
    /\ [][store \subseteq store']_vars

\* a record went through a successful batch insert and was ignored because the
\* table already held a different row with its title
C6_Witness ==
    \E a \in appended :
        /\ a \notin lost
        /\ a \notin Range(article_batch)
        /\ Row(a) \notin store
        /\ HasRow(store, a.title)

\* C7 (store write failure): a batch insert whose first executemany failed has
\* made exactly one more attempt on the same batch.
C7_RetriedOnce ==
    (lastFlush.attempts > 0 /\ ~lastFlush.firstOk) => lastFlush.attempts = 2

\* C9 (bounded retry): a fetch that ended in a transient failure was retried:
\* it made more than one request, and at most MaxRetries.
C9_FailureWasRetried ==
    \A w \in Workers :
        article_data[w].kind = "fail" =>
            article_data[w].requests > 1 /\ article_data[w].requests <= MaxRetries

\* worker_thread marks every title it attempted: a title that was retrieved is
\* in visited unless the worker that retrieved it has not yet reached line 320
MassAttemptedIsVisited ==
    \A t \in Titles :
        fetchCount[t] > 0 =>
            t \in visited \/ \E w \in Workers : pc[w] = "record" /\ current[w] = t

----------------------------------------------------------------------------
(* Properties of the sequential crawler (SpecSeq).                         *)

\* retry_request: at most MaxRetries attempts; a response ends the loop at once;
\* after failed attempt k (0-based, not the last) it has slept 2^k; it returns
\* None only after MaxRetries failures, having slept 1 and 2
RetryRequestBounded ==
    /\ attempt <= MaxRetries
    /\ sresp = "pending" => attempt < MaxRetries
    /\ sresp = "none" /\ spc \in {"category", "summary", "content"} =>
          attempt = MaxRetries /\ delays = <<1, 2>>
    /\ sresp \in {"pending", "response"} =>
          /\ Len(delays) = attempt
          /\ \A k \in DOMAIN delays : delays[k] = Pow2(k - 1)

\* C8 (attempted titles are visited): once fetch_article has returned, every
\* title it was attempted on is in visited, whatever the outcome.
C8_AttemptedIsVisited ==
    spc \in {"loop", "done"} => sattempted \subseteq visited

----------------------------------------------------------------------------
(* Properties of the quality filters (SpecQF).                             *)

Markers == Range(skip_patterns)

\* str contains m at some position, ignoring the case of str
HasMarkerOf(str, m) ==
    \E i \in 1..Len(str) :
        /\ i + Len(m) - 1 <= Len(str)
        /\ \A k \in 1..Len(m) : LowerChar(str[i + k - 1]) = m[k]

HasMarker(str) == \E m \in Markers : HasMarkerOf(str, m)

\* str begins with the characters of p, case as written
BeginsWith(str, p) == Len(p) <= Len(str) /\ \A k \in 1..Len(p) : str[k] = p[k]

\* C10 as claimed, at the boundary: content of length 99 is rejected, and
\* content of length 101 with a summary of at least 100 characters and no
\* marker in title or summary is accepted.
C10_BoundaryOriginal ==
    qfOut # <<>> =>
        /\ qfIn.content = 99 => ~qfOut[1]
        /\ (/\ qfIn.content = 101
            /\ Len(qfIn.summary) >= 100
            /\ ~HasMarker(qfIn.title)
            /\ ~HasMarker(qfIn.summary)) => qfOut[1]

\* C10 as amended: MassCrawler.is_quality_article accepts exactly when neither
\* title nor summary contains one of the eight markers (case-insensitive
\* substring), len(content) >= 1000 and len(summary) >= 100.  script.py's
\* is_quality_article accepts exactly when the title does not contain
\* "disambiguation" and the summary does not contain "may refer to" (both
\* case-insensitive), len(content) >= 500 and the title does not start with
\* "List of" or "Index of" as written.  Applying them changes no state.
C10_QualityFilter ==
    /\ [](qfOut # <<>> =>
            /\ qfOut[1] <=> /\ ~HasMarker(qfIn.title)
                            /\ ~HasMarker(qfIn.summary)
                            /\ qfIn.content >= 1000
                            /\ Len(qfIn.summary) >= 100
            /\ qfOut[2] <=> /\ ~HasMarkerOf(qfIn.title, skip_patterns[1])
                            /\ ~HasMarkerOf(qfIn.summary, skip_patterns[2])
                            /\ qfIn.content >= 500
                            /\ ~BeginsWith(qfIn.title, <<"L", "i", "s", "t", " ", "o", "f">>)
                            /\ ~BeginsWith(qfIn.title,
                                           <<"I", "n", "d", "e", "x", " ", "o", "f">>))
    /\ [][UNCHANGED <<qfIn, shared, mcVars, seqVars, qeVars>>]_vars

\* the filter accepted an input at the content threshold
C10_Witness ==
    /\ qfOut # <<>>
    /\ qfOut[1]
    /\ qfIn.content = 1000
    /\ Len(qfIn.summary) = 100

----------------------------------------------------------------------------
(* Properties of the ranked queries (SpecQuery).                           *)

IsSearch == call.op = "search" /\ status = "returned"
IsRelated == call.op = "related" /\ status = "returned"
ResultIds == {results[k].id : k \in 1..Len(results)}
\* the similarity of matrix row i to the query of the last search
QuerySimilarity(i) == cosine_similarity(call.query, tfidf_matrix.rows[i])

C12_TieBreak ==
    IsSearch =>
        /\ \A k, m \in 1..Len(results) :
              (k < m /\ results[k].score = results[m].score)
                  => results[k].id < results[m].id
        /\ \A i, j \in 1..Len(article_ids) :
              (/\ i < j
               /\ QuerySimilarity(i) = QuerySimilarity(j)
               /\ article_ids[j] \in ResultIds) => article_ids[i] \in ResultIds

\* C13 (search selection): a search returns at most limit results, all with a
\* similarity above 0.01, and every document left out either has a similarity
\* of at most 0.01 or no higher a similarity than any returned one.
C13_Selection ==
    IsSearch =>
        /\ Len(results) <= call.limit
        /\ \A k \in 1..Len(results) : results[k].score > MinSimilarity
        /\ \A i \in 1..Len(article_ids) :
              article_ids[i] \notin ResultIds =>
                  \/ QuerySimilarity(i) <= MinSimilarity
                  \/ \A k \in 1..Len(results) : QuerySimilarity(i) <= results[k].score

\* the same for a limit of at least 1, which holds; with it the list is the
\* first min(limit, passing) of the documents above the threshold
SelectionForPositiveLimit ==
    (IsSearch /\ call.limit >= 1) =>
        /\ C13_Selection
        /\ LET passing == {i \in 1..Len(article_ids) : QuerySimilarity(i) > MinSimilarity}
           IN  Len(results) = IF Cardinality(passing) < call.limit
                              THEN Cardinality(passing) ELSE call.limit

\* C14 (related excludes self): the list returned by get_related_articles for
\* an id never holds an entry with that id.
C14_RelatedExcludesSelf ==
    IsRelated => \A k \in 1..Len(results) : results[k].id # call.article_id

\* related was asked about a document that has a twin with the same vector,
\* and returned the twin
C14_Witness ==
    /\ IsRelated
    /\ \E i, j \in 1..Len(article_ids) :
          /\ i # j
          /\ article_ids[i] = call.article_id
          /\ tfidf_matrix.rows[i] = tfidf_matrix.rows[j]
          /\ article_ids[j] \in ResultIds

\* C15 (NotIndexed): get_related_articles on a built model with an id that is
\* not in article_ids ends in a NotIndexed error.
C15_NotIndexed ==
    (/\ call.op = "related"
     /\ ~Uninitialized
     /\ \A i \in 1..Len(article_ids) : article_ids[i] # call.article_id)
        => status = "NotIndexed"

----------------------------------------------------------------------------
(* Properties of search_suggestions (SpecSug).                             *)

IsSuggest == call.op = "suggest"
\* title begins with the characters of query, letters compared without case
HasPrefix(title, query) ==
    /\ Len(query) <= Len(title)
    /\ \A k \in 1..Len(query) : LowerChar(title[k]) = LowerChar(query[k])
\* title holds the characters of query somewhere, but not at its start
SubstringOnly(title, query) ==
    /\ ~HasPrefix(title, query)
    /\ \E i \in 1..Len(title) : HasPrefix(SubSeq(title, i, Len(title)), query)
SameClass(a, b, query) ==
    \/ HasPrefix(a, query) /\ HasPrefix(b, query)
    \/ SubstringOnly(a, query) /\ SubstringOnly(b, query)
\* position of a character in the alphabet, 0 for anything but a letter
CharRank(c) ==
    IF \E i \in DOMAIN LowerCase : LowerCase[i] = LowerChar(c)
    THEN CHOOSE i \in DOMAIN LowerCase : LowerCase[i] = LowerChar(c)
    ELSE 0
\* a comes before b in the dictionary
LexLess(a, b) ==
    \E k \in 1..(Len(b)) :
        /\ \A i \in 1..(k - 1) : i <= Len(a) /\ CharRank(a[i]) = CharRank(b[i])
        /\ k > Len(a) \/ CharRank(a[k]) < CharRank(b[k])

\* C16 (suggestion ordering): in the list returned for a query of at least two
\* characters no title that only contains the query comes before a title that
\* starts with it, and of two titles of the same class the longer one never
\* comes first.
C16_SuggestionOrdering ==
    (IsSuggest /\ Len(call.partial_query) >= MinQueryLen) =>
        \A k, m \in 1..Len(results) :
            k < m =>
                /\ ~(/\ SubstringOnly(results[k], call.partial_query)
                     /\ HasPrefix(results[m], call.partial_query))
                /\ SameClass(results[k], results[m], call.partial_query)
                       => Len(results[k]) <= Len(results[m])

\* the same for queries without a LIKE wildcard, which holds
OrderingForPlainQueries ==
    (\A k \in 1..Len(call.partial_query) : call.partial_query[k] \notin {"%", "_"})
        => C16_SuggestionOrdering

\* the example of the spec: Cat, Category Theory, Concatenation for "Cat"
CatExampleReached ==
    /\ IsSuggest
    /\ call.partial_query = <<"C", "a", "t">>
    /\ Len(results) = 3
    /\ results[1] = <<"C", "a", "t">>
    /\ Len(results[2]) = 15
    /\ Len(results[3]) = 13

\* C17 (suggestion tie-break): two returned titles of the same class and the
\* same length are in dictionary order.
C17_SuggestionTieBreak ==
    (IsSuggest /\ Len(call.partial_query) >= MinQueryLen) =>
        \A k, m \in 1..Len(results) :
            (/\ k < m
             /\ SameClass(results[k], results[m], call.partial_query)
             /\ Len(results[k]) = Len(results[m]))
                => LexLess(results[k], results[m])

\* C18 (suggest fails closed): a query of fewer than two characters returns
\* the empty list without a query on the store, and a call whose store query
\* raised returns the empty list as well; neither ends in an exception.
C18_SuggestFailsClosed ==
    IsSuggest =>
        /\ status = "returned"
        /\ Len(call.partial_query) < 2 => (results = <<>> /\ ~storeQueried)
        /\ storeError => results = <<>>

\* a one-character query was asked over a store holding a title it begins
C18_Witness ==
    /\ IsSuggest
    /\ Len(call.partial_query) = 1
    /\ \E t \in titles : HasPrefix(t, call.partial_query)
    /\ results = <<>>

----------------------------------------------------------------------------
(* Properties of the index model (SpecIdx).                                *)

IsQuery == call.op \in {"search", "related"}

\* C19 as claimed: while no build_search_index or load_model call has
\* returned True, every search and every related call returns the empty list
\* and raises nothing.
C19_UnbuiltOriginal ==
    (IsQuery /\ ~succeeded) => (results = <<>> /\ status = "returned")

\* C19 (queries on an unbuilt model): while the engine holds no matrix (no
\* build has got through fit_transform and no load has read a snapshot),
\* every search and every related call returns the empty list and raises
\* nothing, also after a build that failed in the vectorizer.
C19_UnbuiltQueries ==
    (IsQuery /\ tfidf_matrix = NoMatrix) => (results = <<>> /\ status = "returned")

\* a query was made after a build that got as far as creating the vectorizer
C19_Witness ==
    /\ IsQuery
    /\ tfidf_matrix = NoMatrix
    /\ vectorizer = "unfitted"
    /\ article_ids # <<>>
    /\ results = <<>>

\* C20 (index model invariant): the matrix has as many rows as article_ids
\* has entries, and row i is the vector of the document article_ids[i]; an
\* engine without a matrix has no article ids.
C20_IndexInvariant ==
    IF tfidf_matrix = NoMatrix
    THEN article_ids = <<>>
    ELSE /\ Len(tfidf_matrix.rows) = Len(article_ids)
         /\ \A i \in 1..Len(article_ids) :
               /\ article_ids[i] = article_id(i)
               /\ tfidf_matrix.rows[i] = docVec[i]

----------------------------------------------------------------------------
(* Properties of the index build (SpecRebuild, SpecIdx).                   *)

\* the three fields are those of one finished build over some n rows, or
\* those of the engine before any build
CompleteModel ==
    \/ vectorizer = "None" /\ tfidf_matrix = NoMatrix /\ article_ids = <<>>
    \/ /\ vectorizer = "fitted"
       /\ tfidf_matrix # NoMatrix
       /\ \E n \in 1..MaxDocs :
             /\ tfidf_matrix = Matrix(SelectedRows(n))
             /\ article_ids = SelectedIds(n)

\* C21 (atomic rebuild): a search or related call made while a rebuild runs
\* reads the complete old model or the complete new one: never a vectorizer,
\* a matrix and article ids of different builds, never a vectorizer that is
\* not fitted yet.  A step that leaves the engine's fields alone is a query.
C21_AtomicRebuild ==
    [][(UNCHANGED idxVars /\ IsQuery') => CompleteModel]_vars

\* a step of build_search_index itself, or of a load_model that found no
\* snapshot it could read and went on to build
IsBuildStep ==
    /\ nrows' = nrows
    /\ \/ call'.op = "build"
       \/ call'.op = "load" /\ model_file.kind # "snapshot"

\* C22 (empty corpus): a build over a store with no row whose clean_content
\* is longer than 100 characters returns False, and the vectorizer, the
\* matrix, the article ids and the snapshot file are what they were.
C22_EmptyCorpus ==
    [][(IsBuildStep /\ nrows = 0) =>
          /\ status' = "False"
          /\ UNCHANGED <<vectorizer, tfidf_matrix, article_ids, model_file>>]_vars

\* an engine that holds a loaded model was rebuilt over a store without
\* rows, and still holds the model
C22_Witness ==
    /\ call.op = "build"
    /\ nrows = 0
    /\ status = "False"
    /\ vectorizer = "fitted"
    /\ tfidf_matrix # NoMatrix
    /\ Len(article_ids) = Len(tfidf_matrix.rows)
    /\ Len(article_ids) > 0

\* C23 (snapshot reload): load_model never raises: with a snapshot it reads
\* it, without one it can read it returns what the rebuild returned, True
\* or False.
C23_ReloadNeverRaises ==
    call.op = "load" => status \in {"True", "False"}

----------------------------------------------------------------------------
(* Properties of the worker threads of mass_crawler.py (Spec).             *)

\* worker w takes a step that reads or writes self.visited or self.queue:
\* the loop condition, the popleft, the two membership checks, the update
FrontierAccess(w) ==
    /\ pc[w] \in {"loop", "dequeue", "check", "fetch", "record"}
    /\ pc'[w] # pc[w]

\* C24 (lock discipline): a worker reads and writes the visited set and the
\* queue only while it holds the lock, so never while another worker holds
\* it; and the title a worker dequeues is not one that another worker is
\* fetching at that moment.
C24_LockDiscipline ==
    [][\A w \in Workers :
          /\ FrontierAccess(w) => lock \in {NoWorker, w}
          /\ (pc[w] = "dequeue" /\ pc'[w] = "check") =>
                \A v \in Workers \ {w} :
                    ~(pc[v] = "fetch" /\ current[v] = current'[w])]_vars

\* the first half of C24 alone
AccessNotUnderForeignLock ==
    [][\A w \in Workers : FrontierAccess(w) => lock \in {NoWorker, w}]_vars

\* the second half of C24 alone
NoDequeueOfTitleInFetch ==
    [][\A w \in Workers :
          (pc[w] = "dequeue" /\ pc'[w] = "check") =>
              \A v \in Workers \ {w} :
                  ~(pc[v] = "fetch" /\ current[v] = current'[w])]_vars

\* C25 (flush outside the lock): while a worker is in the store call of its
\* batch flush, no worker holds the lock.
C25_FlushOutsideLock ==
    \A w \in Workers : pc[w] = "flush" => lock = NoWorker

\* the appended records that no batch insert was given: a record given to
\* one is in the store under its title, unless an older row has the title, or
\* in `lost` when the insert failed
Unhanded == {r \in appended : ~HasRow(store, r.title) /\ r \notin lost}

\* the parts of C26 about the buffer between critical sections: as long as
\* no flush has ended in an exception it is below BATCH_SIZE whenever the
\* lock is free, and a record leaves it only by being given to a batch insert
BufferFlushedWhole ==
    /\ (lock = NoWorker /\ \A w \in Workers : pc[w] # "died") =>
          Len(article_batch) < BATCH_SIZE
    /\ Unhanded \subseteq Range(article_batch)

\* C26 (batch flushing): the buffer is below BATCH_SIZE whenever no worker
\* holds the lock; the append that fills it is followed, under the same
\* lock, by one batch insert of the whole buffer and its clearing; and each
\* buffered record is given to the store exactly once, so none is left
\* ungiven when run() has ended.
C26_BatchFlushing ==
    /\ BufferFlushedWhole
    /\ mpc \in {"returned", "raised"} => Unhanded = {}

\* how often title t stands in the sequence q
Occurrences(q, t) == Cardinality({i \in DOMAIN q : q[i] = t})

\* the second half of C27 alone: a title that a step adds to the queue is
\* not in visited when it is added
EnqueuedTitlesAreUnvisited ==
    [][\A t \in Titles :
          Occurrences(queue', t) > Occurrences(queue, t) => t \notin visited']_vars

\* C27 (enqueue if new): the queue never holds a title twice, and a title
\* that is added to the queue is not in visited at that moment.
C27_EnqueueIfNew ==
    /\ [](\A t \in Titles : Occurrences(queue, t) <= 1)
    /\ EnqueuedTitlesAreUnvisited

\* C28 (rate limiting): a worker that has called fetch_article and has not
\* slept since is on its way to time.sleep(RATE_LIMIT), whatever the call
\* returned: it is recording, flushing or about to sleep, so it is not at the
\* loop condition, not dequeuing, not at a second fetch and not stopped; or
\* an exception out of the flush has ended its thread.
C28_RateLimit ==
    \A w \in Workers : unslept[w] => pc[w] \in {"record", "flush", "sleep", "died"}

\* fetch_article calls that went out to the network, over all titles
RECURSIVE FetchTotal(_)
FetchTotal(S) ==
    IF S = {} THEN 0
    ELSE LET t == CHOOSE x \in S : TRUE IN fetchCount[t] + FetchTotal(S \ {t})

\* after three fetch attempts by two workers, none of which gave an article,
\* a worker has recorded its failed attempt and stands before the sleep
C28_Witness ==
    /\ appended = {}
    /\ FetchTotal(Titles) >= 3
    /\ \E w \in Workers : pc[w] = "sleep" /\ unslept[w]

\* C29 (worker termination): every run reaches a state in which every worker
\* has left the loop of worker_thread, whatever the link graph and the fetch
\* outcomes are, unless run() found the queue empty and started no worker.
C29_WorkersTerminate ==
    <>(mpc = "aborted" \/ AllStopped)

\* both workers have ended after a crawl that fetched more than the target
\* asks for and left titles in the queue
C29_Witness ==
    /\ AllStopped
    /\ FetchTotal(Titles) >= MAX_ARTICLES
    /\ queue # <<>>

\* C30 (stop condition): while run() has not been interrupted, a worker
\* leaves the loop with titles still in the queue only when MAX_ARTICLES
\* articles have been fetched and appended to the batch during this run;
\* rejected, failed and preloaded titles do not count.
C30_StopCondition ==
    [][\A w \in Workers :
          (/\ pc[w] # "stopped"
           /\ pc'[w] = "stopped"
           /\ queue # <<>>
           /\ mpc # "interrupted") => Cardinality(appended) >= MAX_ARTICLES]_vars

\* C31 (visited only grows): no step of the crawler, a failed batch insert
\* with its rollback included, takes a title out of visited.
C31_VisitedOnlyGrows ==
    [][visited \subseteq visited']_vars

\* a batch insert has failed and was rolled back, the run has ended, and the
\* titles of the lost records are still in visited
C31_Witness ==
    /\ lost # {}
    /\ mpc = "returned"
    /\ \A r \in lost : r.title \in visited

\* the last part of C32 alone: a worker returns from worker_thread only when
\* it finds the queue empty or the visited count at MAX_ARTICLES
ReturnsOnlyAtLoopEnd ==
    [][\A w \in Workers :
          (pc[w] # "stopped" /\ pc'[w] = "stopped") =>
              (queue = <<>> \/ Cardinality(visited) >= MAX_ARTICLES)]_vars

\* C32 (no error ends the crawl): no failed request, rejected page or failed
\* store write ends a worker thread or makes run() raise: a worker leaves
\* its loop only on an empty queue or a reached target, and run() ends in a
\* return or in the KeyboardInterrupt it was sent.
C32_NoErrorEndsCrawl ==
    /\ [](\A w \in Workers : pc[w] # "died")
    /\ [](mpc # "failed")
    /\ ReturnsOnlyAtLoopEnd

----------------------------------------------------------------------------
(* Properties of get_related_articles (SpecQuery).                         *)

\* the last call was get_related_articles for an id that article_ids holds
IsRelatedIndexed ==
    /\ IsRelated
    /\ \E i \in 1..Len(article_ids) : article_ids[i] = call.article_id

\* the matrix row of the article asked about
TargetRow == IndexOf(article_ids, call.article_id)

\* the similarity of matrix row i to the stored vector of that article
TargetSimilarity(i) ==
    cosine_similarity(tfidf_matrix.rows[TargetRow], tfidf_matrix.rows[i])

\* the rows other than the target's whose similarity is above the floor
RelatedCandidates ==
    {i \in 1..Len(article_ids) : i # TargetRow /\ TargetSimilarity(i) > RelatedFloor}

----------------------------------------------------------------------------
(* C34: how far the visited count can pass the target.                     *)

\* the workers that have passed the loop condition and have not yet reached
\* the visited.add of that iteration
PastLoopCheck == {w \in Workers : pc[w] \in {"dequeue", "check", "fetch", "record"}}

\* C34: when fewer than MAX_ARTICLES titles are visited as the workers start,
\* the visited count never exceeds MAX_ARTICLES + MAX_WORKERS - 1; once the
\* target is reached, every title still to come is owed to a worker that
\* passed the loop condition before, and each such worker adds at most one.
C34_OvershootBound ==
    Cardinality(Preloaded) < MAX_ARTICLES =>
        /\ Cardinality(visited) <= MAX_ARTICLES + MAX_WORKERS - 1
        /\ Cardinality(visited) >= MAX_ARTICLES =>
               Cardinality(visited) + Cardinality(PastLoopCheck)
                   <= MAX_ARTICLES + MAX_WORKERS - 1

\* the bound is met: every worker passed the loop condition below the target
\* and added a title of its own
C34_Witness ==
    /\ Cardinality(visited) = MAX_ARTICLES + MAX_WORKERS - 1
    /\ \A w \in Workers : pc[w] = "stopped"

----------------------------------------------------------------------------
(* C35: what is left when the pool has drained.                            *)

\* the main thread was not interrupted (no cancellation)
NotCancelled == mpc \notin {"interrupted", "raised"}

\* there is work the crawl will never take up
Stranded == queue # <<>> /\ Cardinality(visited) < MAX_ARTICLES

\* the part that holds: when every worker has returned from worker_thread,
\* the last one to return saw the queue empty or the target reached, and
\* nothing has changed either since
NoStrandingOnReturn ==
    (NotCancelled /\ \A w \in Workers : pc[w] = "stopped") => ~Stranded

\* the race the property is about: a worker has returned on an empty queue,
\* the other one has enqueued links since and is still in its loop
EarlyExitRace ==
    /\ NotCancelled
    /\ Stranded
    /\ \E w \in Workers : pc[w] = "stopped"
    /\ \E w \in Workers : pc[w] \in {"sleep", "loop"}

\* C35: once every worker thread has ended and the run was not cancelled,
\* the queue is empty or the visited count has reached MAX_ARTICLES.
C35_NoStrandedWork ==
    (NotCancelled /\ AllStopped) => ~Stranded

----------------------------------------------------------------------------
(* C36: termination of the sequential crawl.                               *)

\* C36: crawl_category returns: the loop condition is eventually found false.
C36_CrawlTerminates == <>(spc = "done")

----------------------------------------------------------------------------
(* C37: what fetch_category_members returns.                               *)

\* the part that holds: a page request answered with a status other than 200
\* ends the call with the members gathered so far
MembersKeptOnStatus == cm_pc = "status" => cm_return = cm_members

\* a non-200 answer after some pages were gathered
StatusAfterPages == cm_pc = "status" /\ cm_return # <<>> /\ cm_requests > 1

\* C37: fetch_category_members returns at most 500 members, whatever the
\* sizes and the number of the pages, and returns the members gathered so
\* far when a page request gets a status other than 200.
C37_MemberLimit ==
    MembersReturned =>
        /\ Len(cm_return) <= MemberLimit
        /\ cm_pc = "status" => cm_return = cm_members

====
